---------------------------- MODULE Spec2Model ----------------------------
(* A model of src/airtable/airtable.py: the AirtableBase / Airtable client.  *)
(* One client object issues one call at a time (the library is synchronous   *)
(* and single-threaded).  The remote service is the environment: every       *)
(* response is chosen nondeterministically from a bounded set of responses.  *)
(* Python dicts are sets of <<key, value>> pairs, Python lists are sequences.*)
EXTENDS Integers, Sequences, FiniteSets, TLC

VARIABLES
  cls,          \* class of the client object: "AirtableBase" or "Airtable"
  API_LIMIT,    \* class attribute API_LIMIT, in milliseconds
  call,         \* the call in progress (entry point and its arguments)
  pc,           \* position of the call
  gen,          \* frame of the get_iter_in_table generator
  all_records,  \* local of get_all_in_table
  batch,        \* frame of _batch_request: items left and responses so far
  yielded,      \* pages the generator has yielded so far, in order
  served,       \* responses the server has given to this call, in order
  log,          \* requests sent and sleeps taken by this call, in order
  result        \* outcome of the call: nothing yet, a value, or an exception

vars == <<cls, API_LIMIT, call, pc, gen, all_records, batch, yielded, served, log, result>>

-----------------------------------------------------------------------------
(* Bounds of the model *)

\* the server stops handing out cursors after this many pages of one listing
MaxPages == 2
\* longest list handed to a batch operation
MaxBatch == 3

-----------------------------------------------------------------------------
(* Values *)

None == "<None>"

DefaultApiLimit == 200

ApiLimits == {DefaultApiLimit, 500}

Tables == {"t1", "t 2"}

\* table_name given to the Airtable constructor
SelfTable == "t1"

RecIds == {"rec1", "rec2"}

FieldVals == {"fa", "fb"}

FieldNames == {"Name"}

FieldValues == {"John"}

\* a record as the server returns it
Rec(id, f) == {<<"id", id>>, <<"fields", f>>}

EmptyDict == {}

HasKey(d, k) == \E p \in d : p[1] = k

Lookup(d, k) == (CHOOSE p \in d : p[1] = k)[2]

\* the **options a caller passes
OptionChoices ==
  { {},
    {<<"formula", "F0">>, <<"view", "v1">>},
    {<<"offset", "c1">>},
    {<<"bogus", "x">>, <<"view", "v1">>},
    {<<"bogus", "x">>, <<"offset", "c1">>} }

\* the fields and typecast arguments tried on the write operations
WriteArgs == { <<"fa", FALSE>>, <<"fb", TRUE>> }

\* pages of a listing response ('records' present)
PageChoices ==
  { <<>>,
    <<Rec("rec1", "fa")>>,
    <<Rec("rec2", "fb"), Rec("rec1", "fa")>> }

StatusChoices == {200, 404, 422}

-----------------------------------------------------------------------------
(* Python attribute lookup and argument binding on the client object *)

BaseAttrs ==
  { "get_in_table", "get_iter_in_table", "get_all_in_table", "match_in_table",
    "search_in_table", "insert_in_table", "_batch_request",
    "batch_insert_in_table", "update_in_table", "update_by_field_in_table",
    "replace_in_table", "replace_by_field_in_table", "delete_in_table",
    "delete_by_field_in_table", "batch_delete", "mirror_in_table" }

FacadeAttrs ==
  { "get", "get_iter", "get_all", "match", "search", "insert", "batch_insert",
    "update", "update_by_field", "replace", "replace_by_field", "delete",
    "delete_by_field", "batch_delete", "mirror" }

Attrs(c) == IF c = "Airtable" THEN BaseAttrs \cup FacadeAttrs ELSE BaseAttrs

\* positional parameters (after self) of the methods called as self.<name>(...)
MaxPositional(c, name) ==
  CASE name = "get_all"      -> 0
    [] name = "update"       -> 3
    [] name = "batch_delete" -> IF c = "Airtable" THEN 1 ELSE 2
    [] OTHER                 -> 4

\* the exception of evaluating self.<name>(<npos positional arguments>), or None
CallError(c, name, npos) ==
  IF name \notin Attrs(c) THEN "AttributeError"
  ELSE IF npos > MaxPositional(c, name) THEN "TypeError"
  ELSE None

-----------------------------------------------------------------------------
(* Wire events and responses *)

Req(method, table, id, params, hasJson, fields, typecast) ==
  [ev |-> "request", method |-> method, table |-> table, id |-> id,
   params |-> params, hasJson |-> hasJson, fields |-> fields,
   typecast |-> typecast, secs |-> 0]

\* a sleep of the interval the class is defined with
SleepDefault(secs) ==
  [ev |-> "sleep", method |-> None, table |-> None, id |-> None,
   params |-> {}, hasJson |-> FALSE, fields |-> None,
   typecast |-> FALSE, secs |-> DefaultApiLimit]

Sleep(secs) ==
  [ev |-> "sleep", method |-> None, table |-> None, id |-> None,
   params |-> {}, hasJson |-> FALSE, fields |-> None,
   typecast |-> FALSE, secs |-> secs]

\* a URL: the table segment, the record id segment, the query
NoUrl == <<None, None, {}>>

\* a response: its body parses as JSON unless said otherwise, and its url is
\* set by the session that receives it
Resp(status, hasRecords, records, offset, body) ==
  [status |-> status, hasRecords |-> hasRecords, records |-> records,
   offset |-> offset, body |-> body, json |-> TRUE, url |-> NoUrl]

\* the bodies of an error response: not JSON, JSON without an 'error' entry,
\* JSON with one
ErrorBodies ==
  { [json |-> FALSE, body |-> {}],
    [json |-> TRUE, body |-> {}],
    [json |-> TRUE, body |-> {<<"error", "INVALID_FILTER">>}] }

ErrorResponses ==
  { [Resp(s, FALSE, <<>>, None, b.body) EXCEPT !.json = b.json] :
      s \in StatusChoices \ {200}, b \in ErrorBodies }

\* the last page of a listing: with or without 'records', the cursor absent
\* or empty
FinalPages ==
  { Resp(200, TRUE, r, o, {}) : r \in PageChoices, o \in {None, ""} }
  \cup { Resp(200, FALSE, <<>>, o, {}) : o \in {None, ""} }

\* the pages tried with a cursor: every kind of page, both cursors
CursorPages ==
  { Resp(200, TRUE, <<Rec("rec1", "fa")>>, "c1", {}),
    Resp(200, TRUE, <<Rec("rec2", "fb"), Rec("rec1", "fa")>>, "c2", {}),
    Resp(200, TRUE, <<>>, "c2", {}),
    Resp(200, FALSE, <<>>, "c1", {}) }

MorePages == CursorPages \cup FinalPages \cup ErrorResponses

LastPage == FinalPages \cup ErrorResponses

\* what the server may answer to the (n+1)-th GET of one listing: a listing
\* has at most MaxPages pages
ListResponses(n) == IF n + 1 < MaxPages THEN MorePages ELSE LastPage

\* what the server may answer to a write of one record
WriteResponses(method, id, fields) ==
  (CASE method = "post"   -> { Resp(200, FALSE, <<>>, None, Rec(rid, fields)) : rid \in RecIds }
     [] method = "delete" -> { Resp(200, FALSE, <<>>, None, {<<"deleted", "True">>, <<"id", id>>}) }
     [] OTHER             -> { Resp(200, FALSE, <<>>, None, Rec(id, fields)) })
  \cup ErrorResponses

\* the message of an HTTPError: the status and url it names, whether it is
\* marked as decoded, and the error detail appended to it
NoMsg == [status |-> 0, url |-> NoUrl, decoded |-> FALSE, detail |-> None]

\* outcome of a piece of client code: exception or None, the decoded response,
\* the events it put on the wire and the responses it consumed
Outcome(exc, data, events, got) ==
  [exc |-> exc, msg |-> NoMsg, data |-> data, events |-> events, got |-> got]

NoData == Resp(0, FALSE, <<>>, None, {})

-----------------------------------------------------------------------------
(* Request executor *)

KnownParams ==
  {"max_records", "view", "page_size", "fields", "sort", "formula", "offset"}

\* _process_params: every option name is looked up in AirtableParams, an
\* unknown name raises; a known option is encoded under its own name
ProcessParams(params) ==
  IF \E p \in params : p[1] \notin KnownParams
  THEN [exc |-> "UnknownParameterError", params |-> {}]
  ELSE [exc |-> None, params |-> params]

\* IS_IPY: the interpreter is not IronPython
IS_IPY == FALSE

\* quote(..., safe="") of a path segment, and the percent-encoding of a query
\* value, on the strings that occur here
Quote(str) ==
  CASE str = "t 2"            -> "t%202"
    [] str = "{Name}='John'"  -> "%7BName%7D%3D%27John%27"
    [] OTHER                  -> str

\* unquote
Unquote(str) ==
  CASE str = "t%202"                     -> "t 2"
    [] str = "%7BName%7D%3D%27John%27"   -> "{Name}='John'"
    [] OTHER                             -> str

UnquoteUrl(url) ==
  <<Unquote(url[1]), url[2], {<<p[1], Unquote(p[2])>> : p \in url[3]}>>

\* the url the session requests: base_url / quote(table_name) [/ record_id],
\* with the parameters as its query
UrlOf(req) ==
  <<Quote(req.table), req.id, {<<p[1], Quote(p[2])>> : p \in req.params}>>

\* an err_msg that leaves out the 'error' entry of the body
ErrMsgNoDetail(response) ==
  [status  |-> response.status,
   url     |-> IF ~IS_IPY /\ response.status = 422
               THEN UnquoteUrl(response.url) ELSE response.url,
   decoded |-> ~IS_IPY /\ response.status = 422,
   detail  |-> None]

\* err_msg: str(exc) names the status and response.url; a 422 has the url
\* replaced by its decoded form and is marked; an 'error' entry of a JSON
\* body is appended
ErrMsg(response) ==
  [status  |-> response.status,
   url     |-> IF ~IS_IPY /\ response.status = 422
               THEN UnquoteUrl(response.url) ELSE response.url,
   decoded |-> ~IS_IPY /\ response.status = 422,
   detail  |-> IF response.json /\ HasKey(response.body, "error")
               THEN Lookup(response.body, "error") ELSE None]

\* a _process_response that lets every status through
ProcessResponseNoRaise(response) ==
  [exc |-> None, msg |-> NoMsg]

\* _process_response: raise_for_status raises on a 4xx/5xx status
ProcessResponse(response) ==
  IF response.status >= 400
  THEN [exc |-> "HTTPError", msg |-> ErrMsg(response)]
  ELSE [exc |-> None, msg |-> NoMsg]

\* _request: session.request leaves out the parameters whose value is None;
\* the response carries the url that was requested
Request(method, table, id, params, hasJson, fields, typecast, resp) ==
  LET req == Req(method, table, id, {p \in params : p[2] # None}, hasJson, fields, typecast)
      response == [resp EXCEPT !.url = UrlOf(req)]
      pr == ProcessResponse(response)
  IN  [Outcome(pr.exc, response, <<req>>, <<response>>) EXCEPT !.msg = pr.msg]

\* a GET that sends the options as they are given
HttpGetUnchecked(table, id, params, resp) ==
  Request("get", table, id, params, FALSE, None, FALSE, resp)

\* _get(url, **params)
HttpGet(table, id, params, resp) ==
  LET pp == ProcessParams(params)
  IN  IF pp.exc # None THEN Outcome(pp.exc, NoData, <<>>, <<>>)
      ELSE Request("get", table, id, pp.params, FALSE, None, FALSE, resp)

HttpPost(table, fields, typecast, resp) ==
  Request("post", table, None, {}, TRUE, fields, typecast, resp)

HttpPut(table, id, fields, typecast, resp) ==
  Request("put", table, id, {}, TRUE, fields, typecast, resp)

HttpPatch(table, id, fields, typecast, resp) ==
  Request("patch", table, id, {}, TRUE, fields, typecast, resp)

HttpDelete(table, id, resp) ==
  Request("delete", table, id, {}, FALSE, None, FALSE, resp)

-----------------------------------------------------------------------------
(* get_iter_in_table: the generator *)

NoGen == [state |-> "none", table |-> None, options |-> {}, offset |-> None, data |-> NoData]

NewGen(table, options) ==
  [state |-> "created", table |-> table, options |-> options, offset |-> None, data |-> NoData]

\* offset = None
FirstOffset == None

\* a page read under a key the response does not have
PageRecordsWrongKey(data) == <<>>

\* records = data.get("records", [])
PageRecords(data) == IF data.hasRecords THEN data.records ELSE <<>>

\* offset = data.get("offset")
NextOffset(data) == data.offset

\* Python truth value of an offset
Truthy(offset) == offset # None /\ offset # ""

\* the keyword arguments without the cursor
GetKwargsNoOffset(options, offset) == options

\* the keyword arguments of self._get(url, offset=offset, **options)
GetKwargs(options, offset) == options \cup {<<"offset", offset>>}

GenResult(g, kind, exc, page, events, got) ==
  [gen |-> g, kind |-> kind, exc |-> exc, msg |-> NoMsg, page |-> page,
   events |-> events, got |-> got]

\* the loop body from the top of `while True` to the yield
GenFetch(g, offset, resp, limit) ==
  IF HasKey(g.options, "offset")
  THEN \* self._get(url, offset=offset, **options): keyword given twice
       GenResult([g EXCEPT !.state = "finished"], "raise", "TypeError", <<>>, <<>>, <<>>)
  ELSE LET r == HttpGet(g.table, None, GetKwargs(g.options, offset), resp)
       IN  IF r.exc # None
           THEN [GenResult([g EXCEPT !.state = "finished"], "raise", r.exc, <<>>,
                           r.events, r.got) EXCEPT !.msg = r.msg]
           ELSE GenResult([g EXCEPT !.state = "suspended", !.offset = offset, !.data = r.data],
                          "yield", None, PageRecords(r.data),
                          r.events \o <<Sleep(limit)>>, r.got)

\* a generator that runs its body again from the top once it has finished
GenNextRestartable(g, resp, limit) ==
  CASE g.state = "suspended" /\ Truthy(NextOffset(g.data)) ->
         GenFetch(g, NextOffset(g.data), resp, limit)
    [] g.state = "suspended" /\ ~Truthy(NextOffset(g.data)) ->
         GenResult([g EXCEPT !.state = "finished", !.offset = NextOffset(g.data)],
                   "stop", None, <<>>, <<>>, <<>>)
    [] OTHER -> GenFetch(g, FirstOffset, resp, limit)

\* one next() on the generator
GenNext(g, resp, limit) ==
  CASE g.state = "created"   -> GenFetch(g, FirstOffset, resp, limit)
    [] g.state = "suspended" ->
         LET offset == NextOffset(g.data)
         IN  IF ~Truthy(offset)
             THEN GenResult([g EXCEPT !.state = "finished", !.offset = offset],
                            "stop", None, <<>>, <<>>, <<>>)
             ELSE GenFetch(g, offset, resp, limit)
    [] OTHER                 -> GenResult(g, "stop", None, <<>>, <<>>, <<>>)

\* number of GETs of the listing the server has answered
PagesServed == Len(served)

\* the next next() on the generator reaches self._get
Fetches(g) ==
  \/ g.state = "created"
  \/ g.state = "suspended" /\ Truthy(NextOffset(g.data))

\* what the server may answer during the next next(): nothing is asked of
\* it when the generator does not fetch
Answers(g) == IF Fetches(g) THEN ListResponses(PagesServed) ELSE {NoData}

-----------------------------------------------------------------------------
(* Calls, results *)

MkCall(entry, table, options, field_name, field_value, fields, typecast, items) ==
  [entry |-> entry, table |-> table, options |-> options,
   field_name |-> field_name, field_value |-> field_value,
   fields |-> fields, typecast |-> typecast, items |-> items]

NoCall == MkCall("none", None, {}, None, None, None, FALSE, <<>>)

NoBatch == [items |-> <<>>, responses |-> <<>>]

MkResult(kind, exc, list, dict) ==
  [kind |-> kind, exc |-> exc, msg |-> NoMsg, list |-> list, dict |-> dict]

NoResult == MkResult("none", None, <<>>, {})

Raise(exc) == MkResult("raise", exc, <<>>, {})

\* raise requests.exceptions.HTTPError(err_msg), or an exception passing through
RaiseWith(exc, msg) == [Raise(exc) EXCEPT !.msg = msg]

ReturnList(l) == MkResult("return", None, l, {})

ReturnDict(d) == MkResult("return", None, <<>>, d)

\* lists of at most n elements of S
RECURSIVE SeqsUpTo(_, _)
SeqsUpTo(S, n) ==
  IF n = 0 THEN { <<>> }
  ELSE LET shorter == SeqsUpTo(S, n - 1)
       IN  shorter \cup { Append(q, x) : q \in {t \in shorter : Len(t) = n - 1}, x \in S }

\* the method name of an entry point, without its _in_table suffix
EntryName(facade, name) == IF facade THEN name ELSE name \o "_in_table"

\* the calls tried: an Airtable object is called through its facade methods,
\* which address self.table_name; an AirtableBase object has the _in_table
\* methods only
Target(facade, table) ==
  /\ facade <=> cls = "Airtable"
  /\ facade => table = SelfTable

\* the caller is between two calls
CanCall == pc = "idle"

Begin(c, newpc, g, b) ==
  /\ CanCall
  /\ call' = c
  /\ pc' = newpc
  /\ gen' = g
  /\ all_records' = <<>>
  /\ batch' = b
  /\ yielded' = <<>>
  /\ served' = <<>>
  /\ log' = <<>>
  /\ result' = NoResult
  /\ UNCHANGED <<cls, API_LIMIT>>

\* a call that raises before it sends anything
BeginRaise(c, exc) ==
  /\ CanCall
  /\ call' = c
  /\ pc' = "done"
  /\ gen' = NoGen
  /\ all_records' = <<>>
  /\ batch' = NoBatch
  /\ yielded' = <<>>
  /\ served' = <<>>
  /\ log' = <<>>
  /\ result' = Raise(exc)
  /\ UNCHANGED <<cls, API_LIMIT>>

Finish(r) ==
  /\ pc' = "done"
  /\ result' = r

-----------------------------------------------------------------------------
(* Initial state: a client object has been constructed *)

Init ==
  /\ cls \in {"AirtableBase", "Airtable"}
  /\ API_LIMIT = DefaultApiLimit
  /\ call = NoCall
  /\ pc = "idle"
  /\ gen = NoGen
  /\ all_records = <<>>
  /\ batch = NoBatch
  /\ yielded = <<>>
  /\ served = <<>>
  /\ log = <<>>
  /\ result = NoResult

\* the caller is done with the outcome of a call, or with a generator it holds
Discard ==
  /\ pc \in {"done", "iter"}
  /\ call' = NoCall
  /\ pc' = "idle"
  /\ gen' = NoGen
  /\ all_records' = <<>>
  /\ batch' = NoBatch
  /\ yielded' = <<>>
  /\ served' = <<>>
  /\ log' = <<>>
  /\ result' = NoResult
  /\ UNCHANGED <<cls, API_LIMIT>>

\* the caller assigns API_LIMIT, between two calls or two steps of an iteration
SetApiLimit ==
  /\ pc \in {"idle", "iter"}
  /\ \E v \in ApiLimits \ {API_LIMIT} : API_LIMIT' = v
  /\ UNCHANGED <<cls, call, pc, gen, all_records, batch, yielded, served, log, result>>

-----------------------------------------------------------------------------
(* get_iter / get_iter_in_table *)

\* calling the generator function runs none of its body
GetIter ==
  /\ CanCall
  /\ \E facade \in BOOLEAN, table \in Tables, options \in OptionChoices :
    /\ Target(facade, table)
    /\ Begin(MkCall(EntryName(facade, "get_iter"), table, options, None, None, None, FALSE, <<>>),
             "iter", NewGen(table, options), NoBatch)

\* the caller advances the generator once
Advance ==
  /\ pc = "iter"
  /\ \E resp \in Answers(gen) :
       LET r == GenNext(gen, resp, API_LIMIT)
       IN  /\ gen' = r.gen
           /\ log' = log \o r.events
           /\ served' = served \o r.got
           /\ yielded' = IF r.kind = "yield" THEN Append(yielded, r.page) ELSE yielded
           /\ result' = [MkResult(r.kind, r.exc, r.page, {}) EXCEPT !.msg = r.msg]
  /\ UNCHANGED <<cls, API_LIMIT, call, pc, all_records, batch>>

-----------------------------------------------------------------------------
(* get_all_in_table and the operations built on it *)

\* all_records = records
ExtendOverwrite(all, records) == records

\* all_records.extend(records)
Extend(all, records) == all \o records

GetAll ==
  /\ CanCall
  /\ \E facade \in BOOLEAN, table \in Tables, options \in OptionChoices :
    /\ Target(facade, table)
    /\ Begin(MkCall(EntryName(facade, "get_all"), table, options, None, None, None, FALSE, <<>>),
             "listing", NewGen(table, options), NoBatch)

\* one turn of `for records in self.get_iter_in_table(...)`
\* a lookup that takes the first page with a record for the whole listing
AfterYieldFirstMatch(c, page) ==
  IF c.entry \in {"match", "match_in_table"} /\ page # <<>> THEN "listed" ELSE "listing"

\* for records in self.get_iter_in_table(...): the loop goes on to the next
\* page whatever the page holds and whoever called get_all_in_table
AfterYield(c, page) == "listing"

ListingStep ==
  /\ pc = "listing"
  /\ \E resp \in Answers(gen) :
       LET r == GenNext(gen, resp, API_LIMIT)
       IN  /\ gen' = r.gen
           /\ log' = log \o r.events
           /\ served' = served \o r.got
           /\ CASE r.kind = "yield" ->
                     /\ yielded' = Append(yielded, r.page)
                     /\ all_records' = Extend(all_records, r.page)
                     /\ pc' = AfterYield(call, r.page)
                     /\ UNCHANGED result
                [] r.kind = "stop" ->
                     /\ pc' = "listed"
                     /\ UNCHANGED <<yielded, all_records, result>>
                [] OTHER ->
                     /\ Finish(RaiseWith(r.exc, r.msg))
                     /\ UNCHANGED <<yielded, all_records>>
  /\ UNCHANGED <<cls, API_LIMIT, call, batch>>

\* return all_records
GetAllReturn ==
  /\ pc = "listed"
  /\ call.entry \in {"get_all", "get_all_in_table"}
  /\ Finish(ReturnList(all_records))
  /\ UNCHANGED <<cls, API_LIMIT, call, gen, all_records, batch, yielded, served, log>>

\* FormulaParameter.from_name_and_value
FromNameAndValue(field_name, field_value) ==
  "{" \o field_name \o "}='" \o field_value \o "'"

\* options.setdefault("formula", formula): the caller's formula is kept
WithFormulaSetDefault(options, field_name, field_value) ==
  IF HasKey(options, "formula") THEN options
  ELSE options \cup {<<"formula", FromNameAndValue(field_name, field_value)>>}

\* options["formula"] = formula
WithFormula(options, field_name, field_value) ==
  {p \in options : p[1] # "formula"}
    \cup {<<"formula", FromNameAndValue(field_name, field_value)>>}

\* a test that takes every lookup for a match
NotRecordNever(record) == FALSE

\* Python truth value of a dict: `not record`
NotRecord(record) == record = EmptyDict

\* the last record of the list instead of the first
MatchResultLast(records) == IF records # <<>> THEN records[Len(records)] ELSE EmptyDict

\* for record in <list>: return record / return {}
MatchResult(records) == IF records # <<>> THEN records[1] ELSE EmptyDict

Match ==
  /\ CanCall
  /\ \E facade \in BOOLEAN, table \in Tables, options \in OptionChoices,
     name \in FieldNames, value \in FieldValues :
    /\ Target(facade, table)
    /\ Begin(MkCall(EntryName(facade, "match"), table, options, name, value, None, FALSE, <<>>),
             "listing", NewGen(table, WithFormula(options, name, value)), NoBatch)

MatchReturn ==
  /\ pc = "listed"
  /\ call.entry \in {"match", "match_in_table"}
  /\ Finish(ReturnDict(MatchResult(all_records)))
  /\ UNCHANGED <<cls, API_LIMIT, call, gen, all_records, batch, yielded, served, log>>

Search ==
  /\ CanCall
  /\ \E facade \in BOOLEAN, table \in Tables, options \in OptionChoices,
     name \in FieldNames, value \in FieldValues :
    /\ Target(facade, table)
    /\ Begin(MkCall(EntryName(facade, "search"), table, options, name, value, None, FALSE, <<>>),
             "listing", NewGen(table, WithFormula(options, name, value)), NoBatch)

SearchReturn ==
  /\ pc = "listed"
  /\ call.entry \in {"search", "search_in_table"}
  /\ Finish(ReturnList(all_records))
  /\ UNCHANGED <<cls, API_LIMIT, call, gen, all_records, batch, yielded, served, log>>

-----------------------------------------------------------------------------
(* update_by_field, replace_by_field, delete_by_field *)

\* the rest of a call after its last request: return the body or raise
AfterRequest(r) ==
  /\ log' = log \o r.events
  /\ served' = served \o r.got
  /\ Finish(IF r.exc # None THEN RaiseWith(r.exc, r.msg) ELSE ReturnDict(r.data.body))

UpdateByField ==
  /\ CanCall
  /\ \E facade \in BOOLEAN, table \in Tables, options \in OptionChoices,
     name \in FieldNames, value \in FieldValues, wa \in WriteArgs :
    /\ Target(facade, table)
    /\ Begin(MkCall(EntryName(facade, "update_by_field"), table, options, name, value,
                    wa[1], wa[2], <<>>),
             "listing", NewGen(table, WithFormula(options, name, value)), NoBatch)

\* return {} if not record else self.update(table_name, record["id"], fields, typecast)
\* AirtableBase has no attribute update, and Airtable.update takes three
\* arguments: with a record the call raises before update_in_table is entered
UpdateByFieldFinish ==
  /\ pc = "listed"
  /\ call.entry \in {"update_by_field", "update_by_field_in_table"}
  /\ LET record == MatchResult(all_records)
     IN  IF NotRecord(record)
         THEN Finish(ReturnDict(EmptyDict))
         ELSE /\ CallError(cls, "update", 4) # None
              /\ Finish(Raise(CallError(cls, "update", 4)))
  /\ UNCHANGED <<cls, API_LIMIT, call, gen, all_records, batch, yielded, served, log>>

ReplaceByField ==
  /\ CanCall
  /\ \E facade \in BOOLEAN, table \in Tables, options \in OptionChoices,
     name \in FieldNames, value \in FieldValues, wa \in WriteArgs :
    /\ Target(facade, table)
    /\ Begin(MkCall(EntryName(facade, "replace_by_field"), table, options, name, value,
                    wa[1], wa[2], <<>>),
             "listing", NewGen(table, WithFormula(options, name, value)), NoBatch)

\* return {} if not record else self.replace_in_table(table_name, record["id"], fields, typecast)
ReplaceByFieldFinish ==
  /\ pc = "listed"
  /\ call.entry \in {"replace_by_field", "replace_by_field_in_table"}
  /\ LET record == MatchResult(all_records)
     IN  IF NotRecord(record)
         THEN /\ Finish(ReturnDict(EmptyDict))
              /\ UNCHANGED <<served, log>>
         ELSE IF ~HasKey(record, "id")
         THEN /\ Finish(Raise("KeyError"))
              /\ UNCHANGED <<served, log>>
         ELSE \E resp \in WriteResponses("put", Lookup(record, "id"), call.fields) :
                AfterRequest(HttpPut(call.table, Lookup(record, "id"), call.fields,
                                     call.typecast, resp))
  /\ UNCHANGED <<cls, API_LIMIT, call, gen, all_records, batch, yielded>>

DeleteByField ==
  /\ CanCall
  /\ \E facade \in BOOLEAN, table \in Tables, options \in OptionChoices,
     name \in FieldNames, value \in FieldValues :
    /\ Target(facade, table)
    /\ Begin(MkCall(EntryName(facade, "delete_by_field"), table, options, name, value,
                    None, FALSE, <<>>),
             "listing", NewGen(table, WithFormula(options, name, value)), NoBatch)

\* record_url = self.record_table_url(table_name, record["id"]); return self._delete(record_url)
DeleteByFieldFinish ==
  /\ pc = "listed"
  /\ call.entry \in {"delete_by_field", "delete_by_field_in_table"}
  /\ LET record == MatchResult(all_records)
     IN  IF ~HasKey(record, "id")
         THEN /\ Finish(Raise("KeyError"))
              /\ UNCHANGED <<served, log>>
         ELSE \E resp \in WriteResponses("delete", Lookup(record, "id"), None) :
                AfterRequest(HttpDelete(call.table, Lookup(record, "id"), resp))
  /\ UNCHANGED <<cls, API_LIMIT, call, gen, all_records, batch, yielded>>

-----------------------------------------------------------------------------
(* _batch_request, batch_insert, batch_delete *)

BatchInsert ==
  /\ CanCall
  /\ \E facade \in BOOLEAN, table \in Tables,
     records \in SeqsUpTo(FieldVals, MaxBatch), typecast \in BOOLEAN :
    /\ Target(facade, table)
    /\ Begin(MkCall(EntryName(facade, "batch_insert"), table, {}, None, None,
                    None, typecast, records),
             "batch", NoGen, [items |-> records, responses |-> <<>>])

\* AirtableBase.batch_delete(table_name, record_ids); on an Airtable object
\* the name is bound to Airtable.batch_delete(record_ids) and the call with
\* two arguments does not bind
BatchDelete ==
  /\ CanCall
  /\ \E table \in Tables, record_ids \in SeqsUpTo(RecIds, MaxBatch) :
    LET c == MkCall("AirtableBase.batch_delete", table, {}, None, None, None, FALSE, record_ids)
    IN  IF CallError(cls, "batch_delete", 2) # None
        THEN BeginRaise(c, CallError(cls, "batch_delete", 2))
        ELSE Begin(c, "batch", NoGen, [items |-> record_ids, responses |-> <<>>])

\* Airtable.batch_delete(record_ids):
\* return self.batch_delete_in_table(self.table_name, record_ids)
\* no class defines batch_delete_in_table
BatchDeleteFacade ==
  /\ CanCall
  /\ \E record_ids \in SeqsUpTo(RecIds, MaxBatch) :
    /\ cls = "Airtable"
    /\ CallError(cls, "batch_delete_in_table", 2) # None
    /\ BeginRaise(MkCall("batch_delete", SelfTable, {}, None, None, None, FALSE, record_ids),
                  CallError(cls, "batch_delete_in_table", 2))

\* a func(item) that catches the error of its request and goes on
BatchFuncSwallow(c, item, resp) ==
  [(IF c.entry \in {"batch_insert", "batch_insert_in_table"}
    THEN HttpPost(c.table, item, c.typecast, resp)
    ELSE HttpDelete(c.table, item, resp)) EXCEPT !.exc = None]

\* func(item): partial(self.insert_in_table, table_name, typecast=typecast) or
\* partial(self.delete_in_table, table_name)
BatchFunc(c, item, resp) ==
  IF c.entry \in {"batch_insert", "batch_insert_in_table"}
  THEN HttpPost(c.table, item, c.typecast, resp)
  ELSE HttpDelete(c.table, item, resp)

BatchMethod(c) ==
  IF c.entry \in {"batch_insert", "batch_insert_in_table"} THEN "post" ELSE "delete"

\* a turn of the loop without its sleep
BatchEventsNoSleep(events, limit) == events

\* the events of one turn of the loop of _batch_request
BatchEvents(events, limit) == events \o <<Sleep(limit)>>

\* one turn of `for item in iterable`, or the return after the last one
BatchStep ==
  /\ pc = "batch"
  /\ IF batch.items = <<>>
     THEN /\ Finish(ReturnList(batch.responses))
          /\ UNCHANGED <<batch, served, log>>
     ELSE \E resp \in WriteResponses(BatchMethod(call), Head(batch.items), Head(batch.items)) :
            LET r == BatchFunc(call, Head(batch.items), resp)
            IN  /\ served' = served \o r.got
                /\ IF r.exc # None
                   THEN /\ log' = log \o r.events
                        /\ Finish(RaiseWith(r.exc, r.msg))
                        /\ UNCHANGED batch
                   ELSE /\ log' = log \o BatchEvents(r.events, API_LIMIT)
                        /\ batch' = [items |-> Tail(batch.items),
                                     responses |-> Append(batch.responses, r.data.body)]
                        /\ UNCHANGED <<pc, result>>
  /\ UNCHANGED <<cls, API_LIMIT, call, gen, all_records, yielded>>

-----------------------------------------------------------------------------
(* mirror / mirror_in_table *)

\* all_record_ids = [r["id"] for r in self.get_all(table_name, **options)]
\* AirtableBase has no attribute get_all, and Airtable.get_all takes keyword
\* arguments only: the call raises before any request
Mirror ==
  /\ CanCall
  /\ \E facade \in BOOLEAN, table \in Tables, options \in OptionChoices,
     records \in SeqsUpTo(FieldVals, MaxBatch) :
    /\ Target(facade, table)
    /\ CallError(cls, "get_all", 1) # None
    /\ BeginRaise(MkCall(EntryName(facade, "mirror"), table, options, None, None,
                         None, FALSE, records),
                  CallError(cls, "get_all", 1))

-----------------------------------------------------------------------------
(* get, insert, update, replace, delete: one request each *)

\* a call of one request: return the body or raise
SingleRequest(c, r) ==
  /\ CanCall
  /\ call' = c
  /\ pc' = "done"
  /\ gen' = NoGen
  /\ all_records' = <<>>
  /\ batch' = NoBatch
  /\ yielded' = <<>>
  /\ served' = r.got
  /\ log' = r.events
  /\ result' = IF r.exc # None THEN RaiseWith(r.exc, r.msg) ELSE ReturnDict(r.data.body)
  /\ UNCHANGED <<cls, API_LIMIT>>

Get ==
  /\ CanCall
  /\ \E facade \in BOOLEAN, table \in Tables, id \in RecIds, f \in FieldVals :
    \E resp \in WriteResponses("get", id, f) :
      /\ Target(facade, table)
      /\ SingleRequest(MkCall(EntryName(facade, "get"), table, {}, None, None,
                              None, FALSE, <<id>>),
                       HttpGet(table, id, {}, resp))

Insert ==
  /\ CanCall
  /\ \E facade \in BOOLEAN, table \in Tables, wa \in WriteArgs :
    \E resp \in WriteResponses("post", None, wa[1]) :
      /\ Target(facade, table)
      /\ SingleRequest(MkCall(EntryName(facade, "insert"), table, {}, None, None,
                              wa[1], wa[2], <<>>),
                       HttpPost(table, wa[1], wa[2], resp))

Update ==
  /\ CanCall
  /\ \E facade \in BOOLEAN, table \in Tables, id \in RecIds, wa \in WriteArgs :
    \E resp \in WriteResponses("patch", id, wa[1]) :
      /\ Target(facade, table)
      /\ SingleRequest(MkCall(EntryName(facade, "update"), table, {}, None, None,
                              wa[1], wa[2], <<id>>),
                       HttpPatch(table, id, wa[1], wa[2], resp))

Replace ==
  /\ CanCall
  /\ \E facade \in BOOLEAN, table \in Tables, id \in RecIds, wa \in WriteArgs :
    \E resp \in WriteResponses("put", id, wa[1]) :
      /\ Target(facade, table)
      /\ SingleRequest(MkCall(EntryName(facade, "replace"), table, {}, None, None,
                              wa[1], wa[2], <<id>>),
                       HttpPut(table, id, wa[1], wa[2], resp))

Delete ==
  /\ CanCall
  /\ \E facade \in BOOLEAN, table \in Tables, id \in RecIds :
    \E resp \in WriteResponses("delete", id, None) :
      /\ Target(facade, table)
      /\ SingleRequest(MkCall(EntryName(facade, "delete"), table, {}, None, None,
                              None, FALSE, <<id>>),
                       HttpDelete(table, id, resp))

-----------------------------------------------------------------------------
Next ==
  \/ Discard
  \/ SetApiLimit
  \/ Get
  \/ Insert
  \/ Update
  \/ Replace
  \/ Delete
  \/ GetIter
  \/ Advance
  \/ GetAll
  \/ ListingStep
  \/ GetAllReturn
  \/ Match
  \/ MatchReturn
  \/ Search
  \/ SearchReturn
  \/ UpdateByField
  \/ UpdateByFieldFinish
  \/ ReplaceByField
  \/ ReplaceByFieldFinish
  \/ DeleteByField
  \/ DeleteByFieldFinish
  \/ BatchInsert
  \/ BatchDelete
  \/ BatchDeleteFacade
  \/ BatchStep
  \/ Mirror

Spec == Init /\ [][Next]_vars

\* a caller that only iterates, and keeps advancing the generator it holds:
\* a for loop over get_iter calls next() until StopIteration
NextIter ==
  \/ GetIter
  \/ Advance
  \/ SetApiLimit
  \/ Discard

IterSpec == Init /\ [][NextIter]_vars /\ WF_vars(Advance)

-----------------------------------------------------------------------------
(* Vocabulary of the properties *)

Requests(l) == SelectSeq(l, LAMBDA e : e.ev = "request")

Gets(l) == SelectSeq(l, LAMBDA e : e.ev = "request" /\ e.method = "get")

Writes(l, method) == SelectSeq(l, LAMBDA e : e.ev = "request" /\ e.method = method)

\* the 'records' list of a response, empty when the response has none
RecordsOf(resp) == IF resp.hasRecords THEN resp.records ELSE <<>>

\* a response carries no cursor: 'offset' is absent or empty
NoCursor(resp) == resp.offset \in {None, ""}

RECURSIVE Flatten(_)
Flatten(pages) == IF pages = <<>> THEN <<>> ELSE Head(pages) \o Flatten(Tail(pages))

\* the responses to the GETs of the listing of the current call
ListingServed == SubSeq(served, 1, Len(Gets(log)))

\* the server answered the listing with N >= 1 pages, the first N-1 with a
\* cursor and the N-th with none
ListingComplete ==
  LET L == ListingServed
  IN  /\ Len(L) >= 1
      /\ \A k \in 1..Len(L) : L[k].status = 200 /\ (NoCursor(L[k]) <=> k = Len(L))

\* all records of the listing, in the order the server gave them
Listed == Flatten([k \in 1..Len(ListingServed) |-> RecordsOf(ListingServed[k])])

\* the parameters of a request other than the cursor
OtherParams(e) == {p \in e.params : p[1] # "offset"}

IsEntry(name) == call.entry \in {name, name \o "_in_table"}

\* every response the call received was a success
AllServedOk == \A k \in 1..Len(served) : served[k].status = 200

-----------------------------------------------------------------------------
(* C1: when the server answers one iteration with N pages, the first N-1     *)
(* with a cursor and the N-th without, an exhausted get_iter has yielded     *)
(* exactly those N pages in order, each the 'records' list of its response,  *)
(* the empty list when the response has no 'records'.                        *)
C1_YieldsServedPages ==
  (IsEntry("get_iter") /\ gen.state = "finished" /\ ListingComplete)
    => yielded = [k \in 1..Len(ListingServed) |-> RecordsOf(ListingServed[k])]

C1_Witness ==
  /\ IsEntry("get_iter") /\ gen.state = "finished" /\ ListingComplete
  /\ result.kind = "stop"
  /\ Len(ListingServed) = 2
  /\ ~ListingServed[1].hasRecords
  /\ Len(yielded) = 2 /\ yielded[1] = <<>> /\ Len(yielded[2]) = 2

(* C2: in every iteration the first GET carries no offset parameter, the     *)
(* (k+1)-th GET carries as offset exactly the cursor of the k-th response,   *)
(* and table and every other option are the same on every GET.               *)
C2_CursorThreading ==
  LET G == Gets(log)
  IN  \A k \in 1..(IF gen.state = "none" THEN 0 ELSE Len(G)) :
        /\ k = 1 => ~HasKey(G[k].params, "offset")
        /\ k > 1 => G[k].params \ OtherParams(G[k]) = {<<"offset", served[k - 1].offset>>}
        /\ OtherParams(G[k]) = gen.options
        /\ G[k].table = call.table /\ G[k].id = None

C2_Witness ==
  /\ IsEntry("get_iter")
  /\ Len(Gets(log)) = 2
  /\ gen.options # {}
  /\ served[1].offset = "c2"
  /\ Lookup(Gets(log)[2].params, "offset") = "c2"

(* C3: get_all is the exhaustive iteration of the pagination iterator: over  *)
(* the same table, options and server pages it sends the same requests, and  *)
(* when it returns, it returns the concatenation of the pages the iterator   *)
(* yields; it raises exactly when, and what, the iterator raises.            *)
RECURSIVE Drive(_, _, _)
\* advance a generator until it stops or raises, against the given responses
Drive(g, resps, limit) ==
  LET r == GenNext(g, IF resps # <<>> THEN Head(resps) ELSE NoData, limit)
  IN  IF r.kind = "yield"
      THEN LET rest == Drive(r.gen, IF resps # <<>> THEN Tail(resps) ELSE <<>>, limit)
           IN  [pages |-> <<r.page>> \o rest.pages,
                events |-> r.events \o rest.events,
                exc |-> rest.exc]
      ELSE [pages |-> <<>>, events |-> r.events, exc |-> r.exc]

C3_GetAllIsExhaustedIterator ==
  (IsEntry("get_all") /\ pc = "done")
    => LET it == Drive(NewGen(call.table, call.options), served, API_LIMIT)
       IN  /\ log = it.events
           /\ result.exc = it.exc
           /\ result.kind = (IF it.exc = None THEN "return" ELSE "raise")
           /\ result.kind = "return" => result.list = Flatten(it.pages)
           /\ yielded = it.pages

C3_Witness ==
  /\ IsEntry("get_all") /\ pc = "done" /\ result.kind = "return"
  /\ call.options # {}
  /\ Len(yielded) = 2 /\ Len(yielded[1]) = 1 /\ Len(yielded[2]) = 2
  /\ Len(result.list) = 3
  /\ Len(Gets(log)) = 2

(* C4: delete_by_field called when no record matches returns an empty       *)
(* result, does not raise, and sends no DELETE.                              *)
C4_DeleteByFieldNoMatchReturnsEmpty ==
  (IsEntry("delete_by_field") /\ pc = "done" /\ ListingComplete /\ Listed = <<>>)
    => /\ result.kind = "return"
       /\ result.dict = EmptyDict
       /\ Writes(log, "delete") = <<>>

(* C5: update_by_field called when a record matches sends exactly one PATCH, *)
(* to the id of the first matching record, with the given fields and         *)
(* typecast, and returns the record the server answers.                      *)
C5_UpdateByFieldPatchesFirstMatch ==
  (IsEntry("update_by_field") /\ pc = "done" /\ ListingComplete /\ Listed # <<>>)
    => LET P == Writes(log, "patch")
       IN  /\ Len(P) = 1
           /\ P[1].table = call.table
           /\ P[1].id = Lookup(Listed[1], "id")
           /\ P[1].fields = call.fields
           /\ P[1].typecast = call.typecast
           /\ AllServedOk => (result.kind = "return" /\ result.dict = served[Len(served)].body)

(* C6: Airtable.batch_delete given K record ids sends exactly K DELETEs, one *)
(* per id in input order, each to that id in the table of the client, and    *)
(* returns the K responses in the same order.                                *)
C6_BatchDeleteDeletesEach ==
  (call.entry = "batch_delete" /\ pc = "done" /\ AllServedOk)
    => LET D == Writes(log, "delete")
       IN  /\ result.kind = "return"
           /\ Len(D) = Len(call.items)
           /\ \A k \in 1..Len(D) : D[k].id = call.items[k] /\ D[k].table = SelfTable
           /\ result.list = [k \in 1..Len(served) |-> served[k].body]

(* C7: mirror lists the records visible under the options, deletes exactly   *)
(* the listed records, then inserts the new records in input order; every    *)
(* DELETE comes before every POST, and the call returns.                     *)
C7_MirrorListsDeletesInserts ==
  (IsEntry("mirror") /\ pc = "done" /\ AllServedOk)
    => LET D == Writes(log, "delete")
           P == Writes(log, "post")
       IN  /\ result.kind = "return"
           /\ Len(Gets(log)) >= 1
           /\ Len(D) = Len(Listed)
           /\ \A k \in 1..Len(D) : D[k].id = Lookup(Listed[k], "id")
           /\ Len(P) = Len(call.items)
           /\ \A k \in 1..Len(P) : P[k].fields = call.items[k]
           /\ \A i, j \in 1..Len(log) :
                /\ (log[i].method = "get" /\ log[j].method = "delete") => i < j
                /\ (log[i].method = "delete" /\ log[j].method = "post") => i < j

(* C8: batch_insert given K records sends exactly K POSTs, one per record in *)
(* input order, sleeps API_LIMIT after each of them, so between every two    *)
(* consecutive POSTs, and returns the K responses in input order.            *)
C8_BatchInsertPaced ==
  IsEntry("batch_insert") =>
    /\ \A i \in 1..(Len(log) - 1) :
         log[i].ev = "request" => (log[i + 1].ev = "sleep" /\ log[i + 1].secs = API_LIMIT)
    /\ (pc = "done" /\ result.kind = "return") =>
         LET P == Writes(log, "post")
         IN  /\ Requests(log) = P
             /\ Len(P) = Len(call.items)
             /\ \A k \in 1..Len(P) :
                  /\ P[k].table = call.table /\ P[k].id = None
                  /\ P[k].fields = call.items[k]
                  /\ P[k].typecast = call.typecast
             /\ result.list = [k \in 1..Len(served) |-> served[k].body]
             /\ Len(result.list) = Len(call.items)

C8_Witness ==
  /\ IsEntry("batch_insert") /\ pc = "done" /\ result.kind = "return"
  /\ Len(call.items) = 2 /\ call.items[1] # call.items[2]
  /\ API_LIMIT = 500
  /\ Len(log) = 4 /\ log[2].secs = 500
  /\ Len(result.list) = 2 /\ result.list[1] # result.list[2]

(* C9: match on a listing that completes raises nothing; it returns the      *)
(* empty mapping when every page is empty, and otherwise the first record of *)
(* the filtered listing.                                                     *)
C9_MatchFirstOrEmpty ==
  (IsEntry("match") /\ pc = "done" /\ ListingComplete)
    => /\ result.kind = "return"
       /\ result.dict = (IF Listed = <<>> THEN EmptyDict ELSE Listed[1])

C9_Witness ==
  /\ IsEntry("match") /\ pc = "done" /\ ListingComplete
  /\ Len(ListingServed) = 2
  /\ Listed = <<>>
  /\ result = ReturnDict(EmptyDict)

(* C10: update_by_field and replace_by_field called when no record matches   *)
(* return the empty mapping, raise nothing, and send no PATCH or PUT: the    *)
(* GETs of the lookup are the only requests.                                 *)
C10_NoMatchNoWrite ==
  ((IsEntry("update_by_field") \/ IsEntry("replace_by_field"))
     /\ pc = "done" /\ ListingComplete /\ Listed = <<>>)
    => /\ result = ReturnDict(EmptyDict)
       /\ \A k \in 1..Len(Requests(log)) : Requests(log)[k].method = "get"

C10_Witness ==
  /\ IsEntry("update_by_field") /\ pc = "done"
  /\ ListingComplete /\ Listed = <<>>
  /\ Len(Gets(log)) = 2 /\ Requests(log) = Gets(log)
  /\ result = ReturnDict(EmptyDict)

(* C11 as claimed: a read operation given options with an unrecognized name  *)
(* fails with UnknownParameterError and sends no request, whatever other     *)
(* options are present.                                                      *)
HasUnknown(options) == \E p \in options : p[1] \notin KnownParams

ReadCall ==
  IsEntry("get_iter") \/ IsEntry("get_all") \/ IsEntry("match") \/ IsEntry("search")

\* the call has run: it is over, or its generator has been advanced
HasRun == pc = "done" \/ (pc = "iter" /\ result.kind # "none")

-----------------------------------------------------------------------------
(* C12 *)

Last(q) == q[Len(q)]

Failed(responses) == \E k \in 1..Len(responses) : responses[k].status >= 400

\* the step receives a response with an error status
ReceivesError ==
  /\ served' # served
  /\ served' # <<>>
  /\ Last(served').status >= 400

-----------------------------------------------------------------------------
(* C13 *)

\* an HTTPError has reached the caller
HttpErrorRaised == result.kind = "raise" /\ result.exc = "HTTPError"

\* the url of a request as text before percent-encoding
PlainUrl(req) == <<req.table, req.id, req.params>>

\* the 'error' entry of a JSON body, None without one
ErrorDetail(response) ==
  IF response.json /\ HasKey(response.body, "error")
  THEN Lookup(response.body, "error") ELSE None

\* C13 as stated: whatever the status, the message of the HTTPError embeds
\* the decoded url of the failed request and the 'error' entry of a JSON body.
C13_EveryStatusDecodedUrl ==
  HttpErrorRaised =>
    /\ result.msg.url = PlainUrl(Last(Requests(log)))
    /\ result.msg.detail = ErrorDetail(Last(served))

\* C13, amended: the message of the HTTPError names the status and the url of
\* the failed request and carries the 'error' entry of a JSON body; the url
\* is decoded, and marked so, for status 422 only, and is the percent-encoded
\* url that was requested for every other status.
C13_DecodedUrlFor422Only ==
  HttpErrorRaised =>
    LET response == Last(served)
        req == Last(Requests(log))
    IN  /\ response.status >= 400
        /\ response.url = UrlOf(req)
        /\ result.msg.status = response.status
        /\ result.msg.decoded = (response.status = 422)
        /\ result.msg.url = IF response.status = 422 THEN PlainUrl(req) ELSE UrlOf(req)
        /\ result.msg.detail = ErrorDetail(response)

C13_Witness ==
  /\ HttpErrorRaised
  /\ IsEntry("search")
  /\ Last(served).status = 422
  /\ result.msg.detail = "INVALID_FILTER"
  /\ result.msg.url[1] = "t 2"
  /\ result.msg.url # Last(served).url

-----------------------------------------------------------------------------
(* C14 *)

\* the caller holds a generator that has not finished
Iterating == pc = "iter" /\ gen.state \in {"created", "suspended"}

\* the generator the caller holds has finished
IterDone == pc = "iter" /\ gen.state = "finished"

\* a step of the caller of an iterator: a finished generator stays as it is,
\* a get_iter call makes a new one, the first request carries no offset
SingleUseStep ==
  /\ (IterDone /\ pc' = "iter") =>
       /\ gen' = gen
       /\ log' = log
       /\ served' = served
       /\ yielded' = yielded
       /\ result' \in {result, MkResult("stop", None, <<>>, {})}
  /\ (pc = "idle" /\ pc' = "iter") =>
       /\ gen'.state = "created"
       /\ gen'.offset = None
       /\ log' = <<>>
       /\ yielded' = <<>>
  /\ (pc' = "iter" /\ Len(Gets(log)) = 0 /\ Len(Gets(log')) > 0) =>
       ~HasKey(Gets(log')[1].params, "offset")

\* C14: the iterator is finite and single-use. The server serves a page
\* without cursor (or an error) after at most MaxPages pages; a caller that
\* keeps advancing then reaches a finished generator, unless it drops it.
\* While the caller holds a finished generator, a step sends nothing and
\* yields nothing, and an advance ends in StopIteration. A get_iter call
\* makes a new generator that has run nothing, and the first request of an
\* iteration carries no offset.
C14_IteratorFiniteSingleUse ==
  /\ Iterating ~> (IterDone \/ pc = "idle")
  /\ [][SingleUseStep]_vars

C14_Witness ==
  /\ IterDone
  /\ result.kind = "stop"
  /\ Len(yielded) = MaxPages
  /\ Len(Gets(log)) = MaxPages
  /\ NoCursor(Last(served))

-----------------------------------------------------------------------------
(* C15 *)

\* C15: mirror is neither atomic nor isolated. A mirror call works on the
\* table request by request: when it has ended it has listed the table, and
\* when it has failed it has failed on one of its requests, with the DELETEs
\* and POSTs answered before the failure left in effect (every request after
\* the listing is a DELETE of a listed record or a POST of a new record,
\* none undoes an earlier one).
C15_MirrorFailsPartway ==
  (IsEntry("mirror") /\ pc = "done")
    => /\ Len(Gets(log)) >= 1
       /\ result.kind = "raise" =>
            /\ result.exc = "HTTPError"
            /\ Failed(served)
       /\ \A k \in 1..Len(Requests(log)) :
            LET req == Requests(log)[k]
            IN  \/ req.method = "get"
                \/ req.method = "delete" /\ \E j \in 1..Len(Listed) : req.id = Lookup(Listed[j], "id")
                \/ req.method = "post" /\ \E j \in 1..Len(call.items) : req.fields = call.items[j]

-----------------------------------------------------------------------------
(* C16 *)

IsGet(e) == e.ev = "request" /\ e.method = "get"

\* the sleeps between positions i and j of the log
SleepsBetween(i, j) == { k \in (i + 1)..(j - 1) : log[k].ev = "sleep" }

\* between two consecutive GETs of a call there is exactly one sleep
OneSleepBetweenGets ==
  \A i, j \in 1..Len(log) :
    (i < j /\ IsGet(log[i]) /\ IsGet(log[j]) /\ \A k \in (i + 1)..(j - 1) : ~IsGet(log[k]))
      => Cardinality(SleepsBetween(i, j)) = 1

\* a sleep that the step adds to the log lasts API_LIMIT as it is at the step
SleepsForApiLimit ==
  \A k \in 1..Len(log') :
    (k > Len(log) /\ log'[k].ev = "sleep") => log'[k].secs = API_LIMIT

\* C16: between every two consecutive page GETs of one iteration the
\* iterator sleeps exactly once, for the value API_LIMIT has when it sleeps.
C16_OneSleepBetweenPages ==
  /\ []OneSleepBetweenGets
  /\ [][SleepsForApiLimit]_vars

C16_Witness ==
  /\ IsEntry("get_iter")
  /\ Len(Gets(log)) = 2
  /\ Len(log) = 4
  /\ log[2].ev = "sleep"
  /\ log[2].secs = DefaultApiLimit
  /\ log[4].ev = "sleep"
  /\ log[4].secs # DefaultApiLimit
  /\ log[4].secs = API_LIMIT

-----------------------------------------------------------------------------
(* C17 *)

\* match and the operations that look a record up with it
MatchBased ==
  \/ IsEntry("match")
  \/ IsEntry("update_by_field")
  \/ IsEntry("replace_by_field")
  \/ IsEntry("delete_by_field")

Sleeps(l) == SelectSeq(l, LAMBDA e : e.ev = "sleep")

\* C17: match does not stop after the first page. When the lookup is over
\* without an error (it has its record, or the call has returned, or a write
\* has been sent) the listing was read to its last page, with one GET and
\* one sleep per page; an error on any page of the listing fails the call
\* with HTTPError, whatever records the earlier pages held.
C17_MatchReadsEveryPage ==
  MatchBased =>
    /\ (\/ pc = "listed"
        \/ pc = "done" /\ result.kind = "return"
        \/ Len(Requests(log)) > Len(Gets(log)))
         => /\ ListingComplete
            /\ Len(Gets(log)) = Len(ListingServed)
            /\ Len(Sleeps(log)) = Len(ListingServed)
    /\ (pc = "done" /\ Failed(ListingServed))
         => /\ result.kind = "raise"
            /\ result.exc = "HTTPError"
            /\ Len(Requests(log)) = Len(Gets(log))

C17_Witness ==
  /\ IsEntry("match")
  /\ pc = "done"
  /\ Len(served) = 2
  /\ RecordsOf(served[1]) # <<>>
  /\ served[2].status >= 400
  /\ result.kind = "raise"
  /\ result.exc = "HTTPError"
  /\ Len(Sleeps(log)) = 1

-----------------------------------------------------------------------------
(* C18 *)

\* a batch operation that has sent a request
BatchCall == call.entry \in {"batch_insert", "batch_insert_in_table", "AirtableBase.batch_delete"}

\* the request is the write of the item by the batch operation
WriteOf(req, item) ==
  /\ req.table = call.table
  /\ IF BatchMethod(call) = "post"
     THEN req.method = "post" /\ req.fields = item /\ req.typecast = call.typecast
     ELSE req.method = "delete" /\ req.id = item

\* C18: when the i-th call of a batch operation on K items fails, the
\* operation ends with the HTTPError and returns no response; the requests
\* sent are the writes of items 1..i in order, each once (none for items
\* i+1..K, none that undoes a write), and writes 1..i-1 were answered with
\* success.
C18_BatchStopsAtFailure ==
  (BatchCall /\ Failed(served)) =>
    LET i == Len(served)
        R == Requests(log)
    IN  /\ pc = "done"
        /\ result.kind = "raise"
        /\ result.exc = "HTTPError"
        /\ result.list = <<>>
        /\ i <= Len(call.items)
        /\ Len(R) = i
        /\ \A k \in 1..i : WriteOf(R[k], call.items[k])
        /\ \A k \in 1..(i - 1) : served[k].status = 200
        /\ Len(batch.responses) = i - 1

C18_Witness ==
  /\ call.entry = "batch_insert"
  /\ Len(call.items) = 3
  /\ Len(served) = 2
  /\ served[1].status = 200
  /\ served[2].status >= 400
  /\ pc = "done"
  /\ result.kind = "raise"
  /\ Len(Requests(log)) = 2

-----------------------------------------------------------------------------
(* C19 *)

\* the options of the caller other than 'formula'
CallerOthers == {p \in call.options : p[1] # "formula"}

\* the equality formula of the call
EqualityFormula == FromNameAndValue(call.field_name, call.field_value)

\* C19: match and search list under the equality formula of their field name
\* and value. The options given to the listing are those of the caller with
\* 'formula' set to that formula; every GET carries it as its only formula
\* and carries the other options of the caller as given; a formula of the
\* caller raises nothing.
C19_EqualityFormulaReplacesCallers ==
  (IsEntry("match") \/ IsEntry("search")) =>
    /\ gen.options = CallerOthers \cup {<<"formula", EqualityFormula>>}
    /\ \A k \in 1..Len(Gets(log)) :
         LET params == Gets(log)[k].params
         IN  /\ {p \in params : p[1] = "formula"} = {<<"formula", EqualityFormula>>}
             /\ {p \in params : p[1] \notin {"formula", "offset"}} = CallerOthers
    /\ (pc = "done" /\ AllServedOk /\ ~HasUnknown(call.options)
          /\ ~HasKey(call.options, "offset"))
         => result.kind = "return"

C19_Witness ==
  /\ IsEntry("search")
  /\ pc = "done"
  /\ <<"formula", "F0">> \in call.options
  /\ result.kind = "return"
  /\ Len(Gets(log)) = 2
  /\ <<"formula", "{Name}='John'">> \in Gets(log)[2].params
  /\ <<"view", "v1">> \in Gets(log)[2].params
  /\ <<"formula", "F0">> \notin Gets(log)[1].params

=============================================================================
